---- MODULE Spec2Model ----
(***************************************************************************)
(* HalEndpointClient: a client-side navigator for HAL style hypermedia     *)
(* APIs.  The model covers the response classifier (parseResult), the      *)
(* result processing (processResult), the envelope separation done by the  *)
(* HalEndpointClient constructor, the Link Table lookups, the navigation   *)
(* operations (the LoadLink and LoadRawLink families), the Embed           *)
(* collection, the validation lookups of HalError, and the ResultModel     *)
(* wrapper of src/unnamed/part_000.                                        *)
(*                                                                         *)
(* src/src/EndpointClient.ts holds two definitions of the module: lines    *)
(* 1-624 and lines 625-1007.  The variable rev says which of the two is    *)
(* the one that runs; it is chosen in Init and never changes.              *)
(*                                                                         *)
(* JavaScript objects live on a heap (the variable heap) and are referred  *)
(* to by address, so that object identity and in-place mutation (the       *)
(* constructor's two delete statements) are visible.  Strings that the     *)
(* code inspects character by character (the content-type header) are      *)
(* sequences of one character strings.                                     *)
(***************************************************************************)
EXTENDS Integers, Sequences, FiniteSets, TLC

VARIABLES rev, heap, clients, embedObjs, allClientsLog, call, navCount, exn,
          sync, model

vars == <<rev, heap, clients, embedObjs, allClientsLog, call, navCount, exn,
          sync, model>>

(***************************************************************************)
(* Bounds of the model.                                                    *)
(***************************************************************************)
\* Navigation calls (static Load included) made in one behaviour.
MaxNav == 2
\* Endpoint Client instances alive in one behaviour.
MaxClients == 5
\* Embed wrappers created in one behaviour.
MaxEmbeds == 1
\* Embed.GetAllClients() calls made in one behaviour.
MaxGetAll == 2
\* Synchronous lookups (HasLink, GetAllLinks, HalError methods) made in one
\* behaviour.
MaxLookups == 1
\* Items the model wrapped by a ResultModel holds, and results in one array
\* given to setData.
MaxItems == 2

Min(a, b) == IF a < b THEN a ELSE b

(***************************************************************************)
(* Strings as character sequences.  A relation name or a form field name   *)
(* is a sequence of the pieces it is concatenated from ("self" + ".Docs"   *)
(* is << "self", ".Docs" >>).                                              *)
(***************************************************************************)
halcyonJsonMimeType ==
    << "a","p","p","l","i","c","a","t","i","o","n","/","j","s","o","n",
       "+","h","a","l","c","y","o","n" >>

jsonMimeType ==
    << "a","p","p","l","i","c","a","t","i","o","n","/","j","s","o","n" >>

\* String.prototype.substring(0, n)
substring0(s, n) == SubSeq(s, 1, Min(n, Len(s)))

\* Other content-type values a server may send.
halcyonCharset == halcyonJsonMimeType \o << ";","u","8" >>
halcyonUpper ==
    << "A","p","p","l","i","c","a","t","i","o","n","/","j","s","o","n",
       "+","h","a","l","c","y","o","n" >>
jsonShort == << "a","p","p","l","i","c","a","t","i","o","n","/","j","s" >>
textPlain == << "t","e","x","t","/","p","l","a","i","n" >>

\* headers.get('content-type'): null when the header is missing, else a string.
NullHeader == [isNull |-> TRUE, s |-> << >>]
Header(s) == [isNull |-> FALSE, s |-> s]

ContentTypes ==
    { NullHeader, Header(<< >>), Header(halcyonJsonMimeType), Header(halcyonCharset),
      Header(jsonMimeType), Header(halcyonUpper), Header(jsonShort),
      Header(textPlain) }

(***************************************************************************)
(* JSON values.  An object is a record of slots, one per key the model     *)
(* knows; a slot says whether the key is absent, and its value.            *)
(***************************************************************************)
Slot(t, v) == [t |-> t, v |-> v]
Absent == Slot("absent", << >>)
UndefinedValue == Slot("undefined", << >>)
NullValue == Slot("null", << >>)
ObjectValue(v) == Slot("object", v)

Str(s) == [t |-> "string", s |-> s]
NoStr == [t |-> "absent", s |-> ""]

Entry(k, v) == [key |-> k, value |-> v]
Link(path, query, method) ==
    [href |-> [path |-> path, query |-> query], method |-> method]

Obj(l, e, m, er, n) ==
    [links |-> l, embedded |-> e, message |-> m, errors |-> er, name |-> n]

\* Reading obj[key] of a slot: a missing key reads as undefined.
ReadSlot(slot) == IF slot.t = "absent" THEN UndefinedValue ELSE slot

\* obj[key] on a table held as a sequence of entries: the value slot, or
\* undefined when there is no such key.
Keys(tbl) == { tbl[i].key : i \in 1..Len(tbl) }
Lookup(tbl, k) ==
    (CHOOSE i \in 1..Len(tbl) : tbl[i].key = k /\ \A j \in 1..(i-1) : tbl[j].key # k)

(***************************************************************************)
(* Response bodies and JSON.parse.  A parse gives the objects it creates   *)
(* as a sequence (the root first); an embedded document is referred to by  *)
(* its position in that sequence and is rebased when put on the heap.      *)
(***************************************************************************)
BodyEmpty == ""
BodyInvalid == "<html>"
BodyFull ==
    "{\"_links\":{\"self\":{\"href\":\"/a?x=1\",\"method\":\"GET\"},\"self.Docs\":{\"href\":\"/doc\",\"method\":\"GET\"}},\"_embedded\":{\"items\":[{\"_links\":{\"self\":{\"href\":\"/i1\",\"method\":\"PUT\"}},\"name\":\"i1\"},{\"name\":\"i2\"}]},\"name\":\"root\"}"
BodyNullLinks == "{\"_links\":null,\"name\":\"n\"}"
BodyError == "{\"message\":\"bad\",\"errors\":{\"name\":\"required\"}}"
BodyMessage == "{\"message\":\"oops\"}"
BodyNullErrors == "{\"message\":\"bad\",\"errors\":null}"

Bodies ==
    { BodyEmpty, BodyInvalid, BodyFull, BodyNullLinks, BodyError, BodyMessage,
      BodyNullErrors }

Parsed(t, objs) == [t |-> t, objs |-> objs]

JSONparse(text) ==
    CASE text = BodyFull ->
           Parsed("object",
             << Obj(ObjectValue(<< Entry(<< "self" >>, Link("/a", "x=1", "GET")),
                                   Entry(<< "self", ".Docs" >>, Link("/doc", "", "GET")) >>),
                    ObjectValue(<< Entry("items", << 2, 3 >>) >>),
                    NoStr, Absent, Str("root")),
                Obj(ObjectValue(<< Entry(<< "self" >>, Link("/i1", "", "PUT")) >>),
                    Absent, NoStr, Absent, Str("i1")),
                Obj(Absent, Absent, NoStr, Absent, Str("i2")) >>)
      [] text = BodyNullLinks ->
           Parsed("object", << Obj(NullValue, Absent, NoStr, Absent, Str("n")) >>)
      [] text = BodyError ->
           Parsed("object",
             << Obj(Absent, Absent, Str("bad"),
                    ObjectValue(<< Entry("name", "required") >>), NoStr) >>)
      [] text = BodyMessage ->
           Parsed("object", << Obj(Absent, Absent, Str("oops"), Absent, NoStr) >>)
      [] text = BodyNullErrors ->
           Parsed("object", << Obj(Absent, Absent, Str("bad"), NullValue, NoStr) >>)
      [] OTHER -> Parsed("SyntaxError", << >>)

(***************************************************************************)
(* Transport responses.                                                    *)
(***************************************************************************)
Statuses ==
    { [ok |-> TRUE, status |-> 200, statusText |-> "OK"],
      [ok |-> FALSE, status |-> 400, statusText |-> "Bad Request"] }

Response(st, h, b) ==
    [ok |-> st.ok, status |-> st.status, statusText |-> st.statusText,
     contentType |-> h, body |-> b]

Responses == { Response(st, h, b) : st \in Statuses, h \in ContentTypes, b \in Bodies }

NoResponse == Response([ok |-> FALSE, status |-> 0, statusText |-> ""], NullHeader, "")

(***************************************************************************)
(* Errors.                                                                 *)
(***************************************************************************)
NoObj == Obj(Absent, Absent, NoStr, Absent, NoStr)

Err(name, message, status, statusText, errorData) ==
    [name |-> name, message |-> message, status |-> status,
     statusText |-> statusText, errorData |-> errorData]

NoError == Err("", "", 0, "", NoObj)
PlainError(message) == Err("Error", message, 0, "", NoObj)
TypeError == Err("TypeError", "", 0, "", NoObj)
SyntaxError == Err("SyntaxError", "", 0, "", NoObj)
GenericError(response) ==
    Err("Error", "Generic server error with status", response.status,
        response.statusText, NoObj)
UnsupportedError == PlainError("Unsupported response type")
MissingContentTypeError == PlainError("Missing content-type in response header")
CannotFindRef == PlainError("Cannot find ref")

\* new HalError(errorData, statusCode)
HalError(errorData, statusCode) ==
    Err("HalError", errorData.message.s, statusCode, "", errorData)


(***************************************************************************)
(* Response Classifier: parseResult.                                       *)
(***************************************************************************)
Return(parsed) == [t |-> "return", parsed |-> parsed, error |-> NoError]
Throw(error) == [t |-> "throw", parsed |-> Parsed("none", << >>), error |-> error]

\* if (contentHeader): null and the empty string are both falsy.
Truthy(contentHeader) == ~contentHeader.isNull /\ contentHeader.s # << >>

\* contentHeader.length >= mime.length
\*   && contentHeader.substring(0, mime.length) === mime
StartsWith(contentHeader, mime) ==
    /\ Len(contentHeader.s) >= Len(mime)
    /\ substring0(contentHeader.s, Len(mime)) = mime

\* data === "" ? null : JSON.parse(data, jsonParseReviver)
ParseBody(data) ==
    IF data = ""
    THEN Return(Parsed("null", << >>))
    ELSE LET p == JSONparse(data)
         IN IF p.t = "SyntaxError" THEN Throw(SyntaxError) ELSE Return(p)

\* { _links: undefined, _embedded: undefined }
EmptyEnvelope ==
    Parsed("object", << Obj(UndefinedValue, UndefinedValue, NoStr, Absent, NoStr) >>)

\* parseResult with the "&& !response.ok" of the generic JSON test left out.
parseResult_JsonOnSuccess(response, data) ==
    LET contentHeader == response.contentType
    IN IF Truthy(contentHeader)
       THEN IF \/ StartsWith(contentHeader, halcyonJsonMimeType)
               \/ StartsWith(contentHeader, jsonMimeType)
            THEN ParseBody(data)
            ELSE Throw(UnsupportedError)
       ELSE Return(EmptyEnvelope)

\* First definition, lines 216-244.
parseResult(response, data) ==
    LET contentHeader == response.contentType
    IN IF Truthy(contentHeader)
       THEN IF \/ StartsWith(contentHeader, halcyonJsonMimeType)
               \/ (StartsWith(contentHeader, jsonMimeType) /\ ~response.ok)
            THEN ParseBody(data)
            ELSE Throw(UnsupportedError)
       ELSE Return(EmptyEnvelope)

\* Second definition, lines 779-806.
parseResult2(response, data) ==
    LET contentHeader == response.contentType
    IN IF ~Truthy(contentHeader)
       THEN Throw(MissingContentTypeError)
       ELSE IF \/ StartsWith(contentHeader, halcyonJsonMimeType)
               \/ (StartsWith(contentHeader, jsonMimeType) /\ ~response.ok)
            THEN ParseBody(data)
            ELSE IF ~response.ok
                 THEN Throw(GenericError(response))
                 ELSE Throw(UnsupportedError)

(***************************************************************************)
(* Heap allocation of the objects a parse creates.                         *)
(***************************************************************************)
Rebase(obj, off) ==
    [obj EXCEPT !.embedded =
        IF @.t = "object"
        THEN ObjectValue([i \in 1..Len(@.v) |->
                 Entry(@.v[i].key,
                       [j \in 1..Len(@.v[i].value) |-> @.v[i].value[j] + off])])
        ELSE @]

Alloc(h, objs) == h \o [i \in 1..Len(objs) |-> Rebase(objs[i], Len(h))]

(***************************************************************************)
(* Endpoint Client construction (envelope separation), lines 255-262.      *)
(***************************************************************************)
Client(data, links, embeds) == [data |-> data, links |-> links, embeds |-> embeds]

\* this.embeds = data._embedded; this.links = data._links; this.data = data
constructorClient(data, h) ==
    Client(data, ReadSlot(h[data].links), ReadSlot(h[data].embedded))

\* The constructor with "delete data._links" left out.
constructorHeap_KeepsLinks(data, h) ==
    [h EXCEPT ![data].embedded = Absent]

\* delete data._embedded; delete data._links
constructorHeap(data, h) ==
    [h EXCEPT ![data].embedded = Absent, ![data].links = Absent]

(***************************************************************************)
(* processResult: the continuation run when response.text() resolves.      *)
(* It yields the settlement of the promise, with the heap and the clients  *)
(* as they are afterwards.                                                 *)
(***************************************************************************)
Settlement(t, error, result, h, cs) ==
    [t |-> t, error |-> error, result |-> result, heap |-> h, clients |-> cs]

processResult(r, response, h, cs) ==
    LET data == response.body
        p == IF r = 1 THEN parseResult(response, data) ELSE parseResult2(response, data)
    IN IF p.t = "throw"
       THEN Settlement("rejected", p.error, 0, h, cs)
       ELSE IF response.ok
            THEN \* return new HalEndpointClient(parsedData, fetcher)
                 IF p.parsed.t = "null"
                 THEN Settlement("rejected", TypeError, 0, h, cs)
                 ELSE LET h1 == Alloc(h, p.parsed.objs)
                          a == Len(h) + 1
                      IN Settlement("resolved", NoError, Len(cs) + 1,
                                    constructorHeap(a, h1),
                                    Append(cs, constructorClient(a, h1)))
            ELSE \* (<any>parsedData).message !== undefined
                 IF p.parsed.t = "null"
                 THEN Settlement("rejected", TypeError, 0, h, cs)
                 ELSE IF p.parsed.objs[1].message.t # "absent"
                      THEN Settlement("rejected",
                                      HalError(p.parsed.objs[1], response.status), 0, h, cs)
                      ELSE Settlement("rejected", GenericError(response), 0, h, cs)


(***************************************************************************)
(* Link Table lookups, lines 574-585.                                      *)
(***************************************************************************)
\* this.links[ref] with this.links === null is a TypeError.
HasLinkThrows(c) == c.links.t = "null"

\* this.links !== undefined && this.links[ref] !== undefined
HasLink(c, ref) == c.links.t # "undefined" /\ ref \in Keys(c.links.v)

\* this.links[ref]
GetLink(c, ref) == c.links.v[Lookup(c.links.v, ref)].value

\* this.HasLink(ref + ".Docs")
HasLinkDoc(c, ref) == HasLink(c, ref \o << ".Docs" >>)

\* GetAllLinks leaving out the last entry of the table.
GetAllLinks_DropsLast(c) ==
    [i \in 1..(Len(c.links.v) - 1) |->
        [href |-> c.links.v[i].value.href, method |-> c.links.v[i].value.method,
         rel |-> c.links.v[i].key]]

\* for (var key in this.links) linkInfos.push({ href, method, rel: key }),
\* lines 591-603; a for-in over undefined or null runs no iteration.
GetAllLinks(c) ==
    [i \in 1..Len(c.links.v) |->
        [href |-> c.links.v[i].value.href, method |-> c.links.v[i].value.method,
         rel |-> c.links.v[i].key]]

\* return this.data, lines 268-270: the object itself, by address.
GetData(c) == c.data

(***************************************************************************)
(* What a synchronous method call does: it returns a boolean (flag), a     *)
(* string or undefined (text), or an array (list), or it throws.           *)
(***************************************************************************)
Outcome(outcome, flag, text, list) ==
    [outcome |-> outcome, flag |-> flag, text |-> text, list |-> list]
Threw == Outcome("threw", FALSE, NoStr, << >>)
ReturnedFlag(flag) == Outcome("returned", flag, NoStr, << >>)
ReturnedText(text) == Outcome("returned", FALSE, text, << >>)
ReturnedList(list) == Outcome("returned", FALSE, NoStr, list)

(***************************************************************************)
(* HalError methods, lines 104-123.  An error is the record HalError makes; *)
(* errorData.errors is absent, null or a table of field errors.            *)
(***************************************************************************)
\* this.errorData.errors !== undefined
hasValidationErrors(e) == ReadSlot(e.errorData.errors).t # "undefined"

\* this.errorData.errors[name]: a TypeError when errors is null
ErrorsLookup(e, name) ==
    IF name \in Keys(e.errorData.errors.v)
    THEN Str(e.errorData.errors.v[Lookup(e.errorData.errors.v, name)].value)
    ELSE NoStr

\* if (this.hasValidationErrors()) return this.errorData.errors[name]
getValidationError(e, name) ==
    IF hasValidationErrors(e)
    THEN IF e.errorData.errors.t = "null"
         THEN Threw
         ELSE ReturnedText(ErrorsLookup(e, name))
    ELSE ReturnedText(NoStr)

\* if (this.hasValidationErrors()) return this.errorData.errors[name] !== undefined
\* return false
hasValidationError(e, name) ==
    IF hasValidationErrors(e)
    THEN IF e.errorData.errors.t = "null"
         THEN Threw
         ELSE ReturnedFlag(ErrorsLookup(e, name) # NoStr)
    ELSE ReturnedFlag(FALSE)

(***************************************************************************)
(* Caller supplied arguments: query objects and payloads.                  *)
(***************************************************************************)
Query(t, s) == [t |-> t, s |-> s]
UndefinedQuery == Query("undefined", "")
NullQuery == Query("null", "")
\* { y: 2 }, which the Uri library renders as "y=2"
QueryY == Query("object", "y=2")
Queries == { UndefinedQuery, NullQuery, QueryY }

\* A payload is a tree of nodes, the root first; an object node lists its
\* keys with the position of each child.
Node(kind, entries) == [kind |-> kind, entries |-> entries]
\* { a: { b: 1, c: "s" }, d: [1, 2] }
PayloadNested ==
    << Node("object", << Entry("a", 2), Entry("d", 5) >>),
       Node("object", << Entry("b", 3), Entry("c", 4) >>),
       Node("scalar", << >>), Node("scalar", << >>), Node("array", << >>) >>
\* { name: null }
PayloadFlat == << Node("object", << Entry("name", 2) >>), Node("null", << >>) >>
\* { a: { b: { c: 0 } }, e: new Date(0), g: {} }
PayloadDeep ==
    << Node("object", << Entry("a", 2), Entry("e", 5), Entry("g", 6) >>),
       Node("object", << Entry("b", 3) >>),
       Node("object", << Entry("c", 4) >>),
       Node("falsy", << >>), Node("date", << >>), Node("object", << >>) >>
Payloads == { PayloadNested, PayloadFlat, PayloadDeep }

Body(t, s, fields) == [t |-> t, s |-> s, fields |-> fields]
UndefinedBody == Body("undefined", "", << >>)

\* JSON.stringify(data)
JSONstringify(data) ==
    CASE data = PayloadNested -> Body("json", "{\"a\":{\"b\":1,\"c\":\"s\"},\"d\":[1,2]}", << >>)
      [] data = PayloadFlat -> Body("json", "{\"name\":null}", << >>)
      [] data = PayloadDeep ->
           Body("json",
                "{\"a\":{\"b\":{\"c\":0}},\"e\":\"1970-01-01T00:00:00.000Z\",\"g\":{}}",
                << >>)

(***************************************************************************)
(* Multipart Encoder, lines 527-548.                                       *)
(***************************************************************************)
\* if (parentKey): undefined and the empty string are both falsy.
TruthyKey(parentKey) == \E i \in 1..Len(parentKey) : parentKey[i] # ""

\* value && value.constructor === {}.constructor: a plain object; null and
\* falsy scalars, arrays, dates, blobs and other instances are not.
IsPlainObject(node) == node.kind = "object"

RECURSIVE FormWalk(_, _, _, _, _)
FormWalk(nodes, n, i, form_data, parentKey) ==
    IF i > Len(nodes[n].entries)
    THEN form_data
    ELSE LET key == nodes[n].entries[i].key
             constructedKey == IF TruthyKey(parentKey)
                               THEN parentKey \o << ".", key >>
                               ELSE << key >>
             value == nodes[n].entries[i].value
         IN IF IsPlainObject(nodes[value])
            THEN FormWalk(nodes, n, i + 1,
                          FormWalk(nodes, value, 1, form_data, constructedKey),
                          parentKey)
            ELSE FormWalk(nodes, n, i + 1,
                          Append(form_data, [name |-> constructedKey, value |-> value]),
                          parentKey)

\* jsonToFormData appending every top level value as it is, without recursion.
jsonToFormData_TopLevelOnly(inJSON) ==
    Body("form", "",
         [i \in 1..Len(inJSON[1].entries) |->
             [name |-> << inJSON[1].entries[i].key >>,
              value |-> inJSON[1].entries[i].value]])

jsonToFormData(inJSON) == Body("form", "", FormWalk(inJSON, 1, 1, << >>, << >>))

(***************************************************************************)
(* Query Composer, lines 611-623.                                          *)
(***************************************************************************)
\* GetQueryLink keeping the link's own query string in front of the new one.
GetQueryLink_Appends(link, query) ==
    IF query.t # "undefined" /\ query.t # "null"
    THEN [href |-> [path |-> link.href.path, query |-> link.href.query],
          method |-> link.method]
    ELSE link

\* new Uri(link.href), uri.setQueryFromObject(query), uri.build(): the path of
\* the href with the query string made from the object.
GetQueryLink(link, query) ==
    IF query.t # "undefined" /\ query.t # "null"
    THEN [href |-> [path |-> link.href.path, query |-> query.s],
          method |-> link.method]
    ELSE link

(***************************************************************************)
(* Requests: LoadRaw (lines 181-196) and the second definition's Load      *)
(* (lines 743-759).                                                        *)
(***************************************************************************)
Options(reqBody, contentType) == [reqBody |-> reqBody, contentType |-> contentType]
NoOptions == Options(UndefinedBody, NullHeader)

\* { reqBody: JSON.stringify(data), contentType: jsonMimeType }
BodyOptions(data) == Options(JSONstringify(data), Header(jsonMimeType))
\* { reqBody: this.jsonToFormData(data) }
FormOptions(data) == Options(jsonToFormData(data), NullHeader)

\* LoadRaw setting Content-Type on every request.
Request_AlwaysContentType(link, options) ==
    [href |-> link.href, method |-> link.method, body |-> options.reqBody,
     headers |-> [Accept |-> halcyonJsonMimeType, bearer |-> "null",
                  ContentType |-> Header(jsonMimeType)]]

Request(link, options) ==
    [href |-> link.href, method |-> link.method, body |-> options.reqBody,
     headers |-> [Accept |-> halcyonJsonMimeType, bearer |-> "null",
                  ContentType |-> options.contentType]]

\* fetcher.fetch(url, init): the transport sees one more request.
fetch(log, request) == Append(log, request)

\* LoadRaw issuing the request a second time.
LoadRaw_Twice(link, options, log) ==
    fetch(fetch(log, Request(link, options)), Request(link, options))

\* return fetcher.fetch(link.href, { method, body, headers })
LoadRaw(link, options, log) == fetch(log, Request(link, options))

(***************************************************************************)
(* State.                                                                  *)
(*   heap          the objects made by JSON.parse, by address              *)
(*   clients       the Endpoint Clients constructed so far                 *)
(*   embedObjs     the Embed wrappers constructed so far                   *)
(*   allClientsLog what each Embed.GetAllClients() call returned           *)
(*   call          the latest navigation call: its arguments, whether it   *)
(*                 threw or returned a promise, the requests the transport *)
(*                 saw for it, the response and the promise's settlement   *)
(*   navCount      the number of navigation calls made                     *)
(*   exn           the latest exception thrown by an Embed operation       *)
(*   sync          the latest synchronous lookup (HasLink, GetAllLinks, a  *)
(*                 HalError or ResultModel method): its arguments and what *)
(*                 it returned or threw                                    *)
(*   model         the contents of the model a ResultModel wraps           *)
(***************************************************************************)
Call(client, op, ref, raw, stage, requests, response, error, result) ==
    [client |-> client, op |-> op, ref |-> ref, raw |-> raw, stage |-> stage,
     requests |-> requests, response |-> response, error |-> error,
     result |-> result]

NoCall == Call(0, "", << >>, FALSE, "none", << >>, NoResponse, NoError, 0)

Exn(op, name, error) == [op |-> op, name |-> name, error |-> error]
NoExn == Exn("", "", NoError)

Embed(name, embeds, owner) == [name |-> name, embeds |-> embeds, owner |-> owner]

\* A synchronous call: the n-th of the behaviour, on client or error `on`,
\* with argument arg; outcome is "returned" or "threw"; a returned boolean is
\* in flag, a returned string or undefined in text, a returned array in list.
Sync(n, op, on, arg, outcome, flag, text, list) ==
    [n |-> n, op |-> op, on |-> on, arg |-> arg, outcome |-> outcome,
     flag |-> flag, text |-> text, list |-> list]
NoSync == Sync(0, "", 0, << >>, "none", FALSE, NoStr, << >>)

Revs == { 1, 2 }
Refs == { << "self" >>, << "missing" >> }
EmbedNames == { "items", "none" }
ErrorNames == { "name", "missing" }
RootLinks == { Link("/root", "", "GET") }

Init ==
    /\ rev \in Revs
    /\ heap = << >>
    /\ clients = << >>
    /\ embedObjs = << >>
    /\ allClientsLog = << >>
    /\ call = NoCall
    /\ navCount = 0
    /\ exn = NoExn
    /\ sync = NoSync
    /\ model = << >>

\* No navigation is in flight, and there is room for one more.
Idle ==
    /\ call.stage \in { "none", "threw", "resolved", "rejected" }
    /\ navCount < MaxNav
    /\ Len(clients) < MaxClients


(***************************************************************************)
(* Navigation.  Every operation has the same shape in the source:          *)
(*   if (this.HasLink(ref)) return Load-or-LoadRaw(link, fetcher, options) *)
(*   else throw new Error('Cannot find ref "' + ref + '".')                *)
(***************************************************************************)
UndefinedPayload == << >>

\* Second definition of Load, lines 743-759: the body is serialised, and the
\* content type set, only when reqBody !== undefined.
Load2(link, reqBody, log) ==
    fetch(log, Request(link, IF reqBody = UndefinedPayload
                             THEN NoOptions
                             ELSE BodyOptions(reqBody)))

\* The requests the transport sees when the running definition loads link.
Send(link, options, reqBody) ==
    IF rev = 1 THEN LoadRaw(link, options, << >>) ELSE Load2(link, reqBody, << >>)

Navigate(c, op, ref, raw, useQuery, query, options, reqBody) ==
    /\ Idle
    /\ c \in 1..Len(clients)
    /\ navCount' = navCount + 1
    /\ LET this == clients[c]
       IN call' =
            IF HasLinkThrows(this)
            THEN Call(c, op, ref, raw, "threw", << >>, NoResponse, TypeError, 0)
            ELSE IF HasLink(this, ref)
                 THEN LET link == IF useQuery
                                  THEN GetQueryLink(GetLink(this, ref), query)
                                  ELSE GetLink(this, ref)
                      IN Call(c, op, ref, raw, "fetching", Send(link, options, reqBody),
                              NoResponse, NoError, 0)
                 ELSE Call(c, op, ref, raw, "threw", << >>, NoResponse, CannotFindRef, 0)
    /\ UNCHANGED << rev, heap, clients, embedObjs, allClientsLog, exn, sync, model >>

\* The static entry point, called by the application for the root resource.
Load ==
    \E link \in RootLinks :
        /\ Idle
        /\ navCount' = navCount + 1
        /\ call' = Call(0, "Load", << >>, FALSE, "fetching",
                        Send(link, NoOptions, UndefinedPayload),
                        NoResponse, NoError, 0)
        /\ UNCHANGED << rev, heap, clients, embedObjs, allClientsLog, exn, sync, model >>

LoadLink(c, ref) ==
    Navigate(c, "LoadLink", ref, FALSE, FALSE, UndefinedQuery, NoOptions, UndefinedPayload)

LoadLinkWithQuery(c, ref, query) ==
    Navigate(c, "LoadLinkWithQuery", ref, FALSE, TRUE, query, NoOptions, UndefinedPayload)

LoadLinkWithBody(c, ref, data) ==
    Navigate(c, "LoadLinkWithBody", ref, FALSE, FALSE, UndefinedQuery,
             BodyOptions(data), data)

LoadLinkWithQueryAndBody(c, ref, query, data) ==
    Navigate(c, "LoadLinkWithQueryAndBody", ref, FALSE, TRUE, query,
             BodyOptions(data), data)

\* The form and raw operations exist in the first definition only.
LoadLinkWithForm(c, ref, data) ==
    /\ rev = 1
    /\ Navigate(c, "LoadLinkWithForm", ref, FALSE, FALSE, UndefinedQuery,
                FormOptions(data), data)

LoadLinkWithQueryAndForm(c, ref, query, data) ==
    /\ rev = 1
    /\ Navigate(c, "LoadLinkWithQueryAndForm", ref, FALSE, TRUE, query,
                FormOptions(data), data)

LoadRawLink(c, ref) ==
    /\ rev = 1
    /\ Navigate(c, "LoadRawLink", ref, TRUE, FALSE, UndefinedQuery, NoOptions,
                UndefinedPayload)

LoadRawLinkWithQuery(c, ref, query) ==
    /\ rev = 1
    /\ Navigate(c, "LoadRawLinkWithQuery", ref, TRUE, TRUE, query, NoOptions,
                UndefinedPayload)

LoadRawLinkWithBody(c, ref, data) ==
    /\ rev = 1
    /\ Navigate(c, "LoadRawLinkWithBody", ref, TRUE, FALSE, UndefinedQuery,
                BodyOptions(data), data)

LoadRawLinkWithQueryAndBody(c, ref, query, data) ==
    /\ rev = 1
    /\ Navigate(c, "LoadRawLinkWithQueryAndBody", ref, TRUE, TRUE, query,
                BodyOptions(data), data)

LoadRawLinkWithForm(c, ref, data) ==
    /\ rev = 1
    /\ Navigate(c, "LoadRawLinkWithForm", ref, TRUE, FALSE, UndefinedQuery,
                FormOptions(data), data)

LoadRawLinkWithQueryAndForm(c, ref, query, data) ==
    /\ rev = 1
    /\ Navigate(c, "LoadRawLinkWithQueryAndForm", ref, TRUE, TRUE, query,
                FormOptions(data), data)

\* return this.LoadLink(ref + ".Docs")
LoadLinkDoc(c, ref) ==
    Navigate(c, "LoadLinkDoc", ref \o << ".Docs" >>, FALSE, FALSE, UndefinedQuery,
             NoOptions, UndefinedPayload)

(***************************************************************************)
(* The transport answers; then response.text() resolves and processResult  *)
(* settles the promise.  A raw load resolves with the response itself.     *)
(***************************************************************************)
\* The answer of the transport with every load, raw ones too, going on to
\* read the body.
TransportRespond_AlwaysReads ==
    \E response \in Responses :
        /\ call.stage = "fetching"
        /\ call' = [call EXCEPT !.response = response, !.stage = "reading"]
        /\ UNCHANGED << rev, heap, clients, embedObjs, allClientsLog, navCount, exn,
                        sync, model >>

\* The answer of the transport with the result processed at once, without
\* waiting for the body text.
TransportRespond_SettlesAtOnce ==
    \E response \in Responses :
        /\ call.stage = "fetching"
        /\ LET s == processResult(rev, response, heap, clients)
           IN /\ call' = [call EXCEPT !.response = response,
                                      !.stage = IF call.raw THEN "resolved" ELSE s.t,
                                      !.error = IF call.raw THEN NoError ELSE s.error,
                                      !.result = IF call.raw THEN 0 ELSE s.result]
              /\ heap' = IF call.raw THEN heap ELSE s.heap
              /\ clients' = IF call.raw THEN clients ELSE s.clients
        /\ UNCHANGED << rev, embedObjs, allClientsLog, navCount, exn, sync, model >>

TransportRespond ==
    \E response \in Responses :
        /\ call.stage = "fetching"
        /\ call' = [call EXCEPT !.response = response,
                                !.stage = IF call.raw THEN "resolved" ELSE "reading"]
        /\ UNCHANGED << rev, heap, clients, embedObjs, allClientsLog, navCount, exn,
                        sync, model >>

TextRead ==
    /\ call.stage = "reading"
    /\ LET s == processResult(rev, call.response, heap, clients)
       IN /\ call' = [call EXCEPT !.stage = s.t, !.error = s.error, !.result = s.result]
          /\ heap' = s.heap
          /\ clients' = s.clients
    /\ UNCHANGED << rev, embedObjs, allClientsLog, navCount, exn, sync, model >>

(***************************************************************************)
(* Embed collections: GetEmbed (277-279), GetAllEmbeds (295-303) and       *)
(* Embed.GetAllClients (70-79).                                            *)
(***************************************************************************)
\* this.embeds !== undefined && this.embeds[name] !== undefined
HasEmbed(c, name) == c.embeds.t # "undefined" /\ name \in Keys(c.embeds.v)

\* this.embeds[name]: the array, or undefined when there is no such key
EmbedsOf(c, name) ==
    IF name \in Keys(c.embeds.v)
    THEN Slot("array", c.embeds.v[Lookup(c.embeds.v, name)].value)
    ELSE UndefinedValue

GetEmbed(c, name) ==
    /\ c \in 1..Len(clients)
    /\ Len(embedObjs) < MaxEmbeds
    /\ IF clients[c].embeds.t \in { "undefined", "null" }
       THEN /\ exn' = Exn("GetEmbed", name, TypeError)
            /\ UNCHANGED embedObjs
       ELSE /\ embedObjs' = Append(embedObjs, Embed(name, EmbedsOf(clients[c], name), c))
            /\ UNCHANGED exn
    /\ UNCHANGED << rev, heap, clients, allClientsLog, call, navCount, sync, model >>

\* for (var key in this.embeds) embeds.push(new Embed(key, this.embeds[key], ...))
AllEmbeds(this, owner) ==
    [i \in 1..Len(this.embeds.v) |->
        Embed(this.embeds.v[i].key, Slot("array", this.embeds.v[i].value), owner)]

GetAllEmbeds(c) ==
    /\ c \in 1..Len(clients)
    /\ LET made == AllEmbeds(clients[c], c)
       IN /\ made # << >>
          /\ Len(embedObjs) + Len(made) <= MaxEmbeds
          /\ embedObjs' = embedObjs \o made
    /\ UNCHANGED << rev, heap, clients, allClientsLog, call, navCount, exn, sync, model >>

RECURSIVE GetAllClientsLoop(_, _, _, _)
GetAllClientsLoop(embeds, i, h, cs) ==
    IF i > Len(embeds)
    THEN [heap |-> h, clients |-> cs]
    ELSE GetAllClientsLoop(embeds, i + 1, constructorHeap(embeds[i], h),
                           Append(cs, constructorClient(embeds[i], h)))

GetAllClients(e) ==
    /\ e \in 1..Len(embedObjs)
    /\ Len(allClientsLog) < MaxGetAll
    /\ LET this == embedObjs[e]
       IN IF this.embeds.t = "undefined"
          THEN \* this.embeds.length on undefined
               /\ exn' = Exn("GetAllClients", this.name, TypeError)
               /\ UNCHANGED << heap, clients, allClientsLog >>
          ELSE LET r == GetAllClientsLoop(this.embeds.v, 1, heap, clients)
               IN /\ Len(r.clients) <= MaxClients
                  /\ heap' = r.heap
                  /\ clients' = r.clients
                  /\ allClientsLog' =
                       Append(allClientsLog,
                              [embed |-> e,
                               clients |-> [i \in 1..Len(this.embeds.v) |->
                                               Len(clients) + i]])
                  /\ UNCHANGED exn
    /\ UNCHANGED << rev, embedObjs, call, navCount, sync, model >>

(***************************************************************************)
(* Synchronous lookups made by the application: HasLink, HasLinkDoc and    *)
(* GetAllLinks on a client, getValidationError and hasValidationError on  *)
(* the HalError a navigation was rejected with.                            *)
(***************************************************************************)
Record(op, on, arg, o) ==
    Sync(sync.n + 1, op, on, arg, o.outcome, o.flag, o.text, o.list)

SyncCall(op, on, arg, o) ==
    /\ sync.n < MaxLookups
    /\ sync' = Record(op, on, arg, o)
    /\ UNCHANGED << rev, heap, clients, embedObjs, allClientsLog, call, navCount,
                    exn, model >>

\* this.links[ref] on a null Link Table throws; otherwise a boolean.
HasLinkCall(c, ref) ==
    /\ c \in 1..Len(clients)
    /\ SyncCall("HasLink", c, ref,
               IF HasLinkThrows(clients[c])
               THEN Threw
               ELSE ReturnedFlag(HasLink(clients[c], ref)))

HasLinkDocCall(c, ref) ==
    /\ c \in 1..Len(clients)
    /\ SyncCall("HasLinkDoc", c, ref,
               IF HasLinkThrows(clients[c])
               THEN Threw
               ELSE ReturnedFlag(HasLinkDoc(clients[c], ref)))

GetAllLinksCall(c) ==
    /\ c \in 1..Len(clients)
    /\ SyncCall("GetAllLinks", c, << >>, ReturnedList(GetAllLinks(clients[c])))

\* The application caught the HalError of the latest navigation.
CaughtHalError == call.stage = "rejected" /\ call.error.name = "HalError"

GetValidationErrorCall(name) ==
    /\ CaughtHalError
    /\ SyncCall("getValidationError", call.error, name,
               getValidationError(call.error, name))

HasValidationErrorCall(name) ==
    /\ CaughtHalError
    /\ SyncCall("hasValidationError", call.error, name,
               hasValidationError(call.error, name))

(***************************************************************************)
(* ResultModel (src/unnamed/part_000): a wrapper that feeds the data field *)
(* of hypermedia results to a model.  The wrapped model is the sequence of *)
(* the items it holds: its clear() empties it and its appendData(item)     *)
(* adds the item at the end.                                               *)
(***************************************************************************)
DataValues == { "d1", "d2" }

\* A HypermediaResult: { data: d }
Result(d) == [data |-> d]

RECURSIVE SeqsUpTo(_, _)
SeqsUpTo(S, n) ==
    IF n = 0
    THEN { << >> }
    ELSE SeqsUpTo(S, n - 1) \cup
         { Append(q, x) : q \in { r \in SeqsUpTo(S, n - 1) : Len(r) = n - 1 }, x \in S }

\* What setData is given: undefined, null, one result, an array of results,
\* or another object with forEach.
Given(kind, items) == [kind |-> kind, items |-> items]
SetDataInputs ==
    { Given("undefined", << >>), Given("null", << >>) }
      \cup { Given("single", << Result(d) >>) : d \in DataValues }
      \cup { Given(kind, items) :
               kind \in { "array", "iterable" },
               items \in SeqsUpTo({ Result(d) : d \in DataValues }, MaxItems) }

\* this.model.clear()
clear(m) == << >>

\* this.model.appendData(result.data, createdShim, variantShim)
appendData(m, result) == Append(m, result.data)

\* items.forEach(result => this.appendData(result, ...))
RECURSIVE forEachAppend(_, _, _)
forEachAppend(m, items, i) ==
    IF i > Len(items)
    THEN m
    ELSE forEachAppend(appendData(m, items[i]), items, i + 1)

\* setData without the clear() it starts with.
setData_NoClear(m, data) ==
    IF data.kind \notin { "undefined", "null" }
    THEN IF data.kind \in { "array", "iterable" }
         THEN forEachAppend(m, data.items, 1)
         ELSE appendData(m, data.items[1])
    ELSE m

\* Lines 28-50: clear, then append the one result or each result of the array
\* or iterable.
setData(m, data) ==
    LET cleared == clear(m)
    IN IF data.kind \notin { "undefined", "null" }
       THEN IF data.kind = "array"
            THEN forEachAppend(cleared, data.items, 1)
            ELSE IF data.kind = "iterable"
                 THEN forEachAppend(cleared, data.items, 1)
                 ELSE appendData(cleared, data.items[1])
       ELSE cleared

\* A ResultModel method is called; sync keeps the contents of the model at the
\* time of the call and the argument.
ModelCall(op, arg, after) ==
    /\ Len(after) <= MaxItems
    /\ model' = after
    /\ sync' = Sync(0, op, model, arg, "returned", FALSE, NoStr, << >>)
    /\ UNCHANGED << rev, heap, clients, embedObjs, allClientsLog, call, navCount, exn >>

SetDataCall(data) == ModelCall("setData", data, setData(model, data))

AppendDataCall(result) == ModelCall("appendData", result, appendData(model, result))

ClearCall == ModelCall("clear", << >>, clear(model))

(***************************************************************************)
(* The specifications of the one program.  Spec is the navigation         *)
(* protocol: the static Load, every navigation operation of a client, the  *)
(* transport's answer and the processing of the result.  SpecEmbed is the   *)
(* materialisation of embedded resources: resources are loaded with the    *)
(* static Load and their Embed collections are taken and iterated.         *)
(* SpecLookup is the synchronous lookups on loaded clients and caught      *)
(* errors, and SpecModel the use of a ResultModel.                         *)
(***************************************************************************)
Next ==
    \/ Load
    \/ \E c \in 1..MaxClients, ref \in Refs : LoadLink(c, ref)
    \/ \E c \in 1..MaxClients, ref \in Refs, query \in Queries :
          LoadLinkWithQuery(c, ref, query)
    \/ \E c \in 1..MaxClients, ref \in Refs, data \in Payloads :
          LoadLinkWithBody(c, ref, data)
    \/ \E c \in 1..MaxClients, ref \in Refs, query \in Queries, data \in Payloads :
          LoadLinkWithQueryAndBody(c, ref, query, data)
    \/ \E c \in 1..MaxClients, ref \in Refs, data \in Payloads :
          LoadLinkWithForm(c, ref, data)
    \/ \E c \in 1..MaxClients, ref \in Refs, query \in Queries, data \in Payloads :
          LoadLinkWithQueryAndForm(c, ref, query, data)
    \/ \E c \in 1..MaxClients, ref \in Refs : LoadRawLink(c, ref)
    \/ \E c \in 1..MaxClients, ref \in Refs, query \in Queries :
          LoadRawLinkWithQuery(c, ref, query)
    \/ \E c \in 1..MaxClients, ref \in Refs, data \in Payloads :
          LoadRawLinkWithBody(c, ref, data)
    \/ \E c \in 1..MaxClients, ref \in Refs, query \in Queries, data \in Payloads :
          LoadRawLinkWithQueryAndBody(c, ref, query, data)
    \/ \E c \in 1..MaxClients, ref \in Refs, data \in Payloads :
          LoadRawLinkWithForm(c, ref, data)
    \/ \E c \in 1..MaxClients, ref \in Refs, query \in Queries, data \in Payloads :
          LoadRawLinkWithQueryAndForm(c, ref, query, data)
    \/ \E c \in 1..MaxClients, ref \in Refs : LoadLinkDoc(c, ref)
    \/ TransportRespond
    \/ TextRead

Spec == Init /\ [][Next]_vars

NextEmbed ==
    \/ Load
    \/ TransportRespond
    \/ TextRead
    \/ \E c \in 1..MaxClients, name \in EmbedNames : GetEmbed(c, name)
    \/ \E c \in 1..MaxClients : GetAllEmbeds(c)
    \/ \E e \in 1..MaxEmbeds : GetAllClients(e)

SpecEmbed == Init /\ [][NextEmbed]_vars

\* SpecLookup: resources are loaded with the static Load and the application
\* makes synchronous lookups on the clients and errors it got.
NextLookup ==
    \/ Load
    \/ TransportRespond
    \/ TextRead
    \/ \E c \in 1..MaxClients, ref \in Refs : HasLinkCall(c, ref)
    \/ \E c \in 1..MaxClients, ref \in Refs : HasLinkDocCall(c, ref)
    \/ \E c \in 1..MaxClients : GetAllLinksCall(c)
    \/ \E name \in ErrorNames : GetValidationErrorCall(name)
    \/ \E name \in ErrorNames : HasValidationErrorCall(name)

SpecLookup == Init /\ [][NextLookup]_vars

\* SpecModel: the application uses a ResultModel.
NextModel ==
    \/ \E data \in SetDataInputs : SetDataCall(data)
    \/ \E d \in DataValues : AppendDataCall(Result(d))
    \/ ClearCall

SpecModel == Init /\ [][NextModel]_vars


(***************************************************************************)
(* Properties.                                                             *)
(***************************************************************************)
\* The raw documents a client's Embedded Map holds, by address.
RawDocs(c) ==
    UNION { { c.embeds.v[i].value[j] : j \in 1..Len(c.embeds.v[i].value) } :
              i \in 1..Len(c.embeds.v) }

\* Two clients are structurally equal: same link table, same embeds, same
\* domain data.
SameStructure(c1, c2, h) ==
    /\ GetAllLinks(c1) = GetAllLinks(c2)
    /\ c1.links.t = c2.links.t
    /\ c1.embeds = c2.embeds
    /\ h[GetData(c1)] = h[GetData(c2)]

\* C1: two GetAllClients() calls on the same Embed collection over n raw
\* documents return sequences of length n, in source order, made of different
\* client instances, and the i-th clients of the two calls are structurally
\* equal (same link table, same embeds, same domain data).
C1_GetAllClientsTwiceEqual ==
    \A a, b \in 1..Len(allClientsLog) :
        (a < b /\ allClientsLog[a].embed = allClientsLog[b].embed) =>
            LET first == allClientsLog[a].clients
                second == allClientsLog[b].clients
                n == Len(embedObjs[allClientsLog[a].embed].embeds.v)
            IN /\ Len(first) = n
               /\ Len(second) = n
               /\ \A i \in 1..n :
                    /\ first[i] # second[i]
                    /\ SameStructure(clients[first[i]], clients[second[i]], heap)

\* No client's data object is another client's data object or a raw document
\* of another client's Embedded Map.
NoSharedState(cs) ==
    \A c1, c2 \in 1..Len(cs) :
        c1 # c2 => /\ cs[c1].data # cs[c2].data
                   /\ cs[c1].data \notin RawDocs(cs[c2])

\* C2: once a client is constructed, no operation changes its Link Table, its
\* Embedded Map or the raw documents the Embedded Map holds; and no two clients
\* share state.
C2_ReadOnlyAfterConstruction ==
    [][ /\ \A c \in 1..Len(clients) :
             /\ clients'[c] = clients[c]
             /\ \A a \in RawDocs(clients[c]) : heap'[a] = heap[a]
        /\ NoSharedState(clients') ]_vars


(***************************************************************************)
(* Vocabulary of the response claims.                                      *)
(***************************************************************************)
\* The latest navigation went through processResult and its promise settled.
Processed == ~call.raw /\ call.stage \in { "resolved", "rejected" }

IsHalcyon(response) ==
    Truthy(response.contentType) /\ StartsWith(response.contentType, halcyonJsonMimeType)

IsJson(response) ==
    Truthy(response.contentType) /\ StartsWith(response.contentType, jsonMimeType)

\* The parsed body is an object with a message field.
BodyHasMessage(text) ==
    /\ text # ""
    /\ JSONparse(text).t = "object"
    /\ JSONparse(text).objs[1].message.t # "absent"

YieldsClient ==
    /\ call.stage = "resolved"
    /\ call.error = NoError
    /\ call.result \in 1..Len(clients)

FailsWith(error) ==
    /\ call.stage = "rejected"
    /\ call.error = error
    /\ call.result = 0

\* r is a key of the client's Link Table; false when there is no table.
InLinkTable(c, r) == c.links.t = "object" /\ r \in Keys(c.links.v)

\* C3: for a relation name that is not in the client's Link Table (the client
\* may have no Link Table at all), HasLink is false and the navigation call
\* throws 'Cannot find ref' synchronously, without any request to the
\* transport.
C3_UnknownRelationThrows ==
    (call.client # 0 /\ ~InLinkTable(clients[call.client], call.ref)) =>
        /\ ~HasLinkThrows(clients[call.client])
        /\ ~HasLink(clients[call.client], call.ref)
        /\ call.stage = "threw"
        /\ call.error = CannotFindRef
        /\ call.requests = << >>

\* C4: a failed response with an accepted content type (hypermedia or generic
\* JSON) ends in a Hal Error with the response's status, the body's message
\* and its field errors when the parsed body has a message field, and in a
\* Generic Transport Error with status and status text otherwise; never in a
\* client.
C4_FailedResponseClassified ==
    (Processed /\ ~call.response.ok
       /\ (IsHalcyon(call.response) \/ IsJson(call.response))) =>
        IF BodyHasMessage(call.response.body)
        THEN /\ call.stage = "rejected"
             /\ call.result = 0
             /\ call.error.name = "HalError"
             /\ call.error.status = call.response.status
             /\ call.error.message = JSONparse(call.response.body).objs[1].message.s
             /\ call.error.errorData.errors =
                  JSONparse(call.response.body).objs[1].errors
        ELSE FailsWith(GenericError(call.response))

\* C5: a failed response whose content type is present and is neither the
\* hypermedia type nor generic JSON fails with a Generic Transport Error, never
\* with 'Unsupported response type'.
C5_FailedUnsupportedTypeIsGeneric ==
    (Processed /\ ~call.response.ok /\ Truthy(call.response.contentType)
       /\ ~IsHalcyon(call.response) /\ ~IsJson(call.response)) =>
        FailsWith(GenericError(call.response))

\* C6: a successful response whose content type is present and does not start
\* (case-sensitively) with application/json+halcyon fails with 'Unsupported
\* response type' and yields no client, whatever the body.
C6_SuccessNeedsHalcyonType ==
    (Processed /\ call.response.ok /\ Truthy(call.response.contentType)
       /\ ~IsHalcyon(call.response)) =>
        FailsWith(UnsupportedError)

C6_Witness ==
    /\ Processed
    /\ call.response.ok
    /\ call.response.contentType = Header(jsonMimeType)
    /\ call.response.body = BodyFull
    /\ call.stage = "rejected"

\* C7: an empty body under an accepted content type parses to null and is no
\* error: a successful response yields a client, a failed one a Generic
\* Transport Error.
C7_EmptyBodyIsNotAnError ==
    (Processed /\ call.response.body = ""
       /\ (IsHalcyon(call.response) \/ (IsJson(call.response) /\ ~call.response.ok))) =>
        IF call.response.ok
        THEN YieldsClient
        ELSE FailsWith(GenericError(call.response))

\* C8: without a content-type header parsing does not fail: a successful
\* response yields a client with no links and no embeds, a failed one a
\* Generic Transport Error.
C8_NoContentTypeGivesEmptyEnvelope ==
    (Processed /\ call.response.contentType = NullHeader) =>
        IF call.response.ok
        THEN /\ YieldsClient
             /\ LET c == clients[call.result]
                IN /\ \A r \in Refs : ~HasLinkThrows(c) /\ ~HasLink(c, r)
                   /\ \A n \in EmbedNames : ~HasEmbed(c, n)
                   /\ GetAllLinks(c) = << >>
                   /\ AllEmbeds(c, call.result) = << >>
        ELSE FailsWith(GenericError(call.response))


\* The data object of every client has neither envelope key; the data of a
\* client built from a hypermedia response keeps the parsed document's other
\* fields; the data of a client of an embedded document is that raw document.
C9_DataHasNoEnvelopeKeys ==
    /\ \A c \in 1..Len(clients) :
          /\ heap[GetData(clients[c])].links.t = "absent"
          /\ heap[GetData(clients[c])].embedded.t = "absent"
    /\ (Processed /\ YieldsClient /\ IsHalcyon(call.response)) =>
          LET root == JSONparse(call.response.body).objs[1]
              data == heap[GetData(clients[call.result])]
          IN /\ data.name = root.name
             /\ data.message = root.message
             /\ data.errors = root.errors
    /\ \A a \in 1..Len(allClientsLog) :
          \A k \in 1..Len(allClientsLog[a].clients) :
              GetData(clients[allClientsLog[a].clients[k]]) =
                  embedObjs[allClientsLog[a].embed].embeds.v[k]

\* GetData() of a client never comes to return another object.
C9_GetDataIsStable ==
    [][\A c \in 1..Len(clients) : GetData(clients'[c]) = GetData(clients[c])]_vars

\* C9: the object GetData() returns has neither a _links nor an _embedded key,
\* for a client built from a successful hypermedia response and for a client
\* materialised from an embedded raw document; it is the parsed document
\* itself with the two keys deleted in place, and a client's GetData() returns
\* the same object at every call.
C9_GetDataStripped == []C9_DataHasNoEnvelopeKeys /\ C9_GetDataIsStable

\* A client of an embedded document that carried _links exists beside the
\* client of the response it came in.
C9_Witness ==
    /\ Len(allClientsLog) >= 1
    /\ Processed
    /\ YieldsClient
    /\ call.response.body = BodyFull
    /\ IsHalcyon(call.response)
    /\ \E a \in 1..Len(allClientsLog) :
          clients[allClientsLog[a].clients[1]].links.t = "object"

\* The transport has seen exactly one request for the latest call on a known
\* relation, and the call carries an error exactly when its promise is rejected.
C10_OneRequest ==
    (call.client # 0 /\ InLinkTable(clients[call.client], call.ref)) =>
        /\ call.stage \in { "fetching", "reading", "resolved", "rejected" }
        /\ Len(call.requests) = 1
        /\ (call.error # NoError) <=> (call.stage = "rejected")

\* A settled call is never touched again: the next change is a new call.
C10_SettledOnce ==
    [][call.stage \in { "resolved", "rejected" } =>
         (call' = call \/ navCount' = navCount + 1)]_vars

\* C10: a navigation call on a relation of the Link Table makes exactly one
\* transport request, at every moment from the call on and after any outcome
\* (no retry, no second request), and its failure is reported once: the
\* promise is rejected with the error and never settled again.
C10_ExactlyOneRoundTrip == []C10_OneRequest /\ C10_SettledOnce

C10_Witness ==
    /\ call.client # 0
    /\ InLinkTable(clients[call.client], call.ref)
    /\ call.stage = "rejected"
    /\ call.error.name = "HalError"
    /\ Len(call.requests) = 1

(***************************************************************************)
(* Vocabulary of the request claims.                                       *)
(***************************************************************************)
BodyOps ==
    { "LoadLinkWithBody", "LoadLinkWithQueryAndBody",
      "LoadRawLinkWithBody", "LoadRawLinkWithQueryAndBody" }

FormOps ==
    { "LoadLinkWithForm", "LoadLinkWithQueryAndForm",
      "LoadRawLinkWithForm", "LoadRawLinkWithQueryAndForm" }

\* This step is a call of one of the operations ops that issues a request.
Started(ops) ==
    /\ navCount' = navCount + 1
    /\ call'.op \in ops
    /\ call'.stage = "fetching"

\* The link the latest call was made on: the root link for the static Load,
\* the Link Table's entry otherwise.
CallLink ==
    IF call.client = 0
    THEN CHOOSE link \in RootLinks : TRUE
    ELSE GetLink(clients[call.client], call.ref)

\* Every request of the latest call has the Accept header and the link's
\* method, and the body and Content-Type that go with the operation.
C11_RequestShape ==
    \A i \in 1..Len(call.requests) :
        LET request == call.requests[i]
        IN /\ request.headers.Accept = halcyonJsonMimeType
           /\ request.method = CallLink.method
           /\ IF call.op \in BodyOps
              THEN /\ request.body.t = "json"
                   /\ request.headers.ContentType = Header(jsonMimeType)
              ELSE IF call.op \in FormOps
                   THEN /\ request.body.t = "form"
                        /\ request.headers.ContentType = NullHeader
                   ELSE /\ request.body = UndefinedBody
                        /\ request.headers.ContentType = NullHeader

\* The body of the request this step issues is the JSON text of data, or the
\* form made of data.
JsonSent(data) == call'.requests[1].body = JSONstringify(data)
FormSent(data) == call'.requests[1].body = jsonToFormData(data)

\* The body of the request is the serialisation of the payload the caller
\* passed: JSON text for a body operation, form fields for a form operation.
C11_PayloadSent ==
    [][ /\ Started({ "LoadLinkWithBody" }) =>
             \A data \in Payloads :
                 LoadLinkWithBody(call'.client, call'.ref, data) => JsonSent(data)
        /\ Started({ "LoadRawLinkWithBody" }) =>
             \A data \in Payloads :
                 LoadRawLinkWithBody(call'.client, call'.ref, data) => JsonSent(data)
        /\ Started({ "LoadLinkWithQueryAndBody" }) =>
             \A data \in Payloads, query \in Queries :
                 LoadLinkWithQueryAndBody(call'.client, call'.ref, query, data)
                     => JsonSent(data)
        /\ Started({ "LoadRawLinkWithQueryAndBody" }) =>
             \A data \in Payloads, query \in Queries :
                 LoadRawLinkWithQueryAndBody(call'.client, call'.ref, query, data)
                     => JsonSent(data)
        /\ Started({ "LoadLinkWithForm" }) =>
             \A data \in Payloads :
                 LoadLinkWithForm(call'.client, call'.ref, data) => FormSent(data)
        /\ Started({ "LoadRawLinkWithForm" }) =>
             \A data \in Payloads :
                 LoadRawLinkWithForm(call'.client, call'.ref, data) => FormSent(data)
        /\ Started({ "LoadLinkWithQueryAndForm" }) =>
             \A data \in Payloads, query \in Queries :
                 LoadLinkWithQueryAndForm(call'.client, call'.ref, query, data)
                     => FormSent(data)
        /\ Started({ "LoadRawLinkWithQueryAndForm" }) =>
             \A data \in Payloads, query \in Queries :
                 LoadRawLinkWithQueryAndForm(call'.client, call'.ref, query, data)
                     => FormSent(data) ]_vars

\* C11: every request of a navigation operation carries Accept:
\* application/json+halcyon and the link's stored method; a body operation
\* sends the payload as JSON text with Content-Type: application/json; a form
\* operation sends the multipart form of the payload and sets no Content-Type;
\* an operation without payload sends no body and no Content-Type.
C11_RequestEncoding == []C11_RequestShape /\ C11_PayloadSent

C11_Witness ==
    /\ call.op = "LoadLinkWithQueryAndForm"
    /\ call.stage = "fetching"
    /\ Len(call.requests) = 1
    /\ call.requests[1].method = "GET"
    /\ Len(call.requests[1].body.fields) = 3
    /\ call.requests[1].headers.ContentType = NullHeader

\* The request this step issues goes to the link of the call with the query
\* string replaced by query, or to the link itself when query is undefined
\* or null; the method is the link's.
QueryApplied(query) ==
    LET link == GetLink(clients[call'.client], call'.ref)
        request == call'.requests[1]
    IN /\ Len(call'.requests) = 1
       /\ request.method = link.method
       /\ IF query.t = "object"
          THEN /\ request.href.path = link.href.path
               /\ request.href.query = query.s
          ELSE request.href = link.href

\* C12: the request of a query-bearing navigation with a query object goes to
\* the link's href with the query string replaced by exactly the supplied
\* query (the link's own parameters are dropped), with the link's method; with
\* an undefined or null query it goes to the link's own href and method; the
\* request already has the composed URL when it is issued, and no step changes
\* a Link Table.
C12_QueryIsFullReplace ==
    [][ /\ Started({ "LoadLinkWithQuery" }) =>
             \A query \in Queries :
                 LoadLinkWithQuery(call'.client, call'.ref, query)
                     => QueryApplied(query)
        /\ Started({ "LoadRawLinkWithQuery" }) =>
             \A query \in Queries :
                 LoadRawLinkWithQuery(call'.client, call'.ref, query)
                     => QueryApplied(query)
        /\ Started({ "LoadLinkWithQueryAndBody" }) =>
             \A query \in Queries, data \in Payloads :
                 LoadLinkWithQueryAndBody(call'.client, call'.ref, query, data)
                     => QueryApplied(query)
        /\ Started({ "LoadRawLinkWithQueryAndBody" }) =>
             \A query \in Queries, data \in Payloads :
                 LoadRawLinkWithQueryAndBody(call'.client, call'.ref, query, data)
                     => QueryApplied(query)
        /\ Started({ "LoadLinkWithQueryAndForm" }) =>
             \A query \in Queries, data \in Payloads :
                 LoadLinkWithQueryAndForm(call'.client, call'.ref, query, data)
                     => QueryApplied(query)
        /\ Started({ "LoadRawLinkWithQueryAndForm" }) =>
             \A query \in Queries, data \in Payloads :
                 LoadRawLinkWithQueryAndForm(call'.client, call'.ref, query, data)
                     => QueryApplied(query)
        /\ \A c \in 1..Len(clients) : clients'[c].links = clients[c].links ]_vars

C12_Witness ==
    /\ call.op = "LoadLinkWithQuery"
    /\ call.stage = "fetching"
    /\ GetLink(clients[call.client], call.ref).href = [path |-> "/a", query |-> "x=1"]
    /\ call.requests[1].href = [path |-> "/a", query |-> "y=2"]

\* C14: GetEmbed(name) returns an Embed wrapper for every client and every
\* name, also for a name that is not in the Embedded Map and for a client
\* without an Embedded Map, and GetAllClients() of a wrapper for an absent
\* name returns an empty sequence: no Embed operation throws.
C14_GetEmbedAlwaysWraps ==
    /\ exn.op # "GetEmbed"
    /\ exn.op # "GetAllClients"
    /\ \A a \in 1..Len(allClientsLog) :
          embedObjs[allClientsLog[a].embed].embeds.t = "undefined" =>
              allClientsLog[a].clients = << >>

\* A raw call that is past the request is resolved with the response the
\* transport gave, carries no error and no client, and never reads the body.
C16_RawIsResolved ==
    call.raw =>
        /\ call.stage \in { "threw", "fetching", "resolved" }
        /\ call.stage = "resolved" =>
              /\ call.response \in Responses
              /\ call.error = NoError
              /\ call.result = 0

\* The step in which the transport answers a raw call resolves it, whatever
\* the response, and no step of a raw call constructs a client or an object.
C16_RawIsNotProcessed ==
    [][ /\ (call.raw /\ call.stage = "fetching" /\ call' # call) =>
             /\ call'.stage = "resolved"
             /\ call'.response \in Responses
             /\ call'.requests = call.requests
        /\ (call.raw /\ call'.raw) => (clients' = clients /\ heap' = heap) ]_vars

IsServerError(error) ==
    \/ error.name = "HalError"
    \/ error.name = "Error" /\ error.message = "Generic server error with status"

\* A call on a known relation does not throw; what a call throws is never a
\* server error; a server error is on a rejected promise, with the response.
C17_ServerErrorIsRejection ==
    /\ (call.client # 0 /\ InLinkTable(clients[call.client], call.ref)) =>
          call.stage # "threw"
    /\ call.stage = "threw" => ~IsServerError(call.error)
    /\ IsServerError(call.error) =>
          /\ call.stage = "rejected"
          /\ call.response \in Responses
          /\ ~call.response.ok

\* A promise is rejected only in the step that follows the reading of the
\* body text of a response that has arrived.
C17_RejectedAfterTextRead ==
    [][ /\ (call'.stage = "rejected" /\ call' # call) =>
             /\ call.stage = "reading"
             /\ call.response \in Responses
             /\ call'.response = call.response
        /\ (call'.stage = "reading" /\ call' # call) => call.stage = "fetching" ]_vars

\* C17: for a known relation a Hal Error or a Generic Transport Error is never
\* thrown by the navigation call itself: the call returns a promise, and the
\* error is the rejection of that promise, after the response has arrived and
\* its body text has been read.
C17_ErrorsOnlyByRejection == []C17_ServerErrorIsRejection /\ C17_RejectedAfterTextRead

C17_Witness ==
    /\ call.op = "LoadLinkWithQuery"
    /\ InLinkTable(clients[call.client], call.ref)
    /\ call.stage = "rejected"
    /\ call.error = GenericError(call.response)

(***************************************************************************)
(* Multipart flattening.                                                   *)
(***************************************************************************)
\* The key paths from node n of a payload to the values that are not plain
\* objects.
RECURSIVE PathsFrom(_, _)
PathsFrom(nodes, n) ==
    UNION { IF IsPlainObject(nodes[nodes[n].entries[i].value])
            THEN { << nodes[n].entries[i].key >> \o p :
                     p \in PathsFrom(nodes, nodes[n].entries[i].value) }
            ELSE { << nodes[n].entries[i].key >> } :
            i \in 1..Len(nodes[n].entries) }

\* The value a key path leads to, from node n.
RECURSIVE ValueAt(_, _, _)
ValueAt(nodes, n, path) ==
    IF path = << >>
    THEN n
    ELSE ValueAt(nodes,
                 nodes[n].entries[CHOOSE i \in 1..Len(nodes[n].entries) :
                                     nodes[n].entries[i].key = Head(path)].value,
                 Tail(path))

\* 'k1.k2. ... .kn'
RECURSIVE FieldName(_)
FieldName(path) ==
    IF Len(path) = 1
    THEN << path[1] >>
    ELSE FieldName(SubSeq(path, 1, Len(path) - 1)) \o << ".", path[Len(path)] >>

\* The fields are the flattening of the payload: one field per key path, under
\* the dotted name, holding the value the path leads to, which is never a
\* plain object; and nothing else.
Flattened(fields, data) ==
    /\ Len(fields) = Cardinality(PathsFrom(data, 1))
    /\ \A path \in PathsFrom(data, 1) :
          /\ Cardinality({ i \in 1..Len(fields) : fields[i].name = FieldName(path) }) = 1
          /\ \A i \in 1..Len(fields) :
                fields[i].name = FieldName(path) =>
                    fields[i].value = ValueAt(data, 1, path)
    /\ \A i \in 1..Len(fields) : ~IsPlainObject(data[fields[i].value])

\* The request this step issues carries the flattening of data.
FlattenedSent(data) ==
    /\ call'.requests[1].body.t = "form"
    /\ Flattened(call'.requests[1].body.fields, data)

\* C18: the form a form operation sends is the flattening of its payload: a
\* value reached through the keys k1, ..., kn of nested plain objects is
\* appended exactly once, under the name 'k1.k2. ... .kn'; only plain objects
\* are recursed into, so an array, a date, a scalar, null or a falsy value is
\* one field ({a:{b:1,c:"s"},d:[1,2]} gives a.b, a.c and d).
C18_FormIsFlattened ==
    [][ /\ Started({ "LoadLinkWithForm" }) =>
             \A data \in Payloads :
                 LoadLinkWithForm(call'.client, call'.ref, data)
                     => FlattenedSent(data)
        /\ Started({ "LoadRawLinkWithForm" }) =>
             \A data \in Payloads :
                 LoadRawLinkWithForm(call'.client, call'.ref, data)
                     => FlattenedSent(data)
        /\ Started({ "LoadLinkWithQueryAndForm" }) =>
             \A data \in Payloads, query \in Queries :
                 LoadLinkWithQueryAndForm(call'.client, call'.ref, query, data)
                     => FlattenedSent(data)
        /\ Started({ "LoadRawLinkWithQueryAndForm" }) =>
             \A data \in Payloads, query \in Queries :
                 LoadRawLinkWithQueryAndForm(call'.client, call'.ref, query, data)
                     => FlattenedSent(data) ]_vars

C18_Witness ==
    /\ call.op = "LoadLinkWithForm"
    /\ call.stage = "fetching"
    /\ call.requests[1].body.fields =
         << [name |-> << "a", ".", "b" >>, value |-> 3],
            [name |-> << "a", ".", "c" >>, value |-> 4],
            [name |-> << "d" >>, value |-> 5] >>

(***************************************************************************)
(* Claims about the synchronous lookups.                                   *)
(***************************************************************************)
\* C13: on a Hal Error, getValidationError(name) and hasValidationError(name)
\* never throw, whatever the name and the error body (which has a message):
\* with a field-error map, hasValidationError is true exactly when the map
\* has an entry for name and getValidationError returns that entry or
\* undefined; without one they return undefined and false.
C13_ValidationLookupsNeverThrow ==
    (sync.op \in { "getValidationError", "hasValidationError" }) =>
        LET errors == sync.on.errorData.errors
            entry == IF errors.t = "object" /\ sync.arg \in Keys(errors.v)
                     THEN Str(errors.v[Lookup(errors.v, sync.arg)].value)
                     ELSE NoStr
        IN /\ sync.outcome = "returned"
           /\ sync.op = "getValidationError" => sync.text = entry
           /\ sync.op = "hasValidationError" => sync.flag = (entry # NoStr)

\* C15: HasLink(rel) never throws: on a client whose Link Table is defined,
\* undefined (no _links) or null (_links: null) it returns a boolean that is
\* true exactly when the Link Table has an entry for rel; HasLinkDoc(rel) is
\* HasLink(rel + '.Docs').
C15_HasLinkNeverThrows ==
    (sync.op \in { "HasLink", "HasLinkDoc" }) =>
        LET rel == IF sync.op = "HasLink" THEN sync.arg ELSE sync.arg \o << ".Docs" >>
        IN /\ sync.outcome = "returned"
           /\ sync.flag = InLinkTable(clients[sync.on], rel)

\* C19: GetAllLinks() returns exactly one LinkInfo per Link Table entry, with
\* the entry's href and method and its relation name as rel; an empty
\* sequence when the client has no Link Table; and for every LinkInfo
\* returned HasLink(rel) is true and GetLink(rel) has the same href and method.
C19_GetAllLinksIsSnapshot ==
    (sync.op = "GetAllLinks") =>
        LET c == clients[sync.on]
            infos == sync.list
        IN /\ sync.outcome = "returned"
           /\ IF c.links.t = "object"
              THEN /\ Len(infos) = Len(c.links.v)
                   /\ \A k \in Keys(c.links.v) :
                         Cardinality({ i \in 1..Len(infos) : infos[i].rel = k }) = 1
              ELSE infos = << >>
           /\ \A i \in 1..Len(infos) :
                 /\ ~HasLinkThrows(c)
                 /\ HasLink(c, infos[i].rel)
                 /\ GetLink(c, infos[i].rel).href = infos[i].href
                 /\ GetLink(c, infos[i].rel).method = infos[i].method

C19_Witness ==
    /\ sync.op = "GetAllLinks"
    /\ sync.list =
         << [href |-> [path |-> "/a", query |-> "x=1"], method |-> "GET",
             rel |-> << "self" >>],
            [href |-> [path |-> "/doc", query |-> ""], method |-> "GET",
             rel |-> << "self", ".Docs" >>] >>

\* The data fields of the results given to setData, in order.
DataOf(data) ==
    IF data.kind \in { "undefined", "null" }
    THEN << >>
    ELSE [i \in 1..Len(data.items) |-> data.items[i].data]

\* C20: after setData(data) the model holds exactly the data field of each
\* result given, in order, whatever it held before (one item for a single
\* result, none for null or undefined); after appendData(result) it holds what
\* it held before followed by result.data; after clear() it is empty.
C20_ResultModelContents ==
    /\ sync.op = "setData" => model = DataOf(sync.arg)
    /\ sync.op = "appendData" => model = sync.on \o << sync.arg.data >>
    /\ sync.op = "clear" => model = << >>

C20_Witness ==
    /\ sync.op = "setData"
    /\ sync.on = << "d1", "d1" >>
    /\ sync.arg = Given("array", << Result("d2"), Result("d1") >>)
    /\ model = << "d2", "d1" >>

====
